---------------------------- MODULE Spec2Model ----------------------------
(***************************************************************************)
(* Model of the admin import views of django-import-export                 *)
(* (src/import_export/admin.py): the field resolver of GenericImportMixin  *)
(* (header_hash, convert_dataset_by_rule, post_convert_dataset) and the    *)
(* preview-then-confirm import flow of ImportMixin / GenericImportMixin    *)
(* (pre_import_action, import_action, process_import).                     *)
(*                                                                         *)
(* Three specifications share the module:                                  *)
(*   SpecResolve  the field resolver applied to bounded datasets and rules *)
(*   SpecHash     header_hash applied to two bounded header lists          *)
(*   Spec         the import flow over record storage and the blob store   *)
(***************************************************************************)
EXTENDS Integers, Sequences, FiniteSets, TLC

VARIABLES
    r_stage,      \* resolver: "input", "converted", "resolved" or "TypeError"
    r_input,      \* resolver: the dataset as parsed, before any conversion
    r_rule,       \* resolver: the import rule, a dict header -> field id
    r_converted,  \* resolver: the dataset after convert_dataset_by_rule
    r_resolved,   \* resolver: the dataset after post_convert_dataset
    h_stage,      \* header_hash: "input" or "hashed"
    h_headers,    \* header_hash: the two header lists given to it
    h_digest,     \* header_hash: the two digests it returned
    predefined_field_rules,  \* GenericImportMixin.predefined_field_rules
    p_stage,      \* pre-import context: "input" or "rendered"
    p_headers,    \* pre-import context: the headers of the parsed dataset
    p_context,    \* pre-import context: what pre_import_action put in it
    admin,        \* the admin class serving the requests
    upload,       \* the file the operator uploads: [name, data]
    storage,      \* record storage: record id -> [name, author_email]
    tmp_storage,  \* the temporary blob store: handle name -> saved data
    tmp_issued,   \* the number of handle names the blob store has given out
    pc,           \* where the operator is in the preview-then-confirm flow
    form,         \* the form of the last response that the next request posts
    passes,       \* the import_data passes so far, one record per pass
    log,          \* the LogEntry rows written, in order
    response,     \* the kind of the last HTTP response
    skip_admin_log,   \* the admin class's attribute skip_admin_log
    SKIP_ADMIN_LOG    \* settings.IMPORT_EXPORT_SKIP_ADMIN_LOG

resolve_vars == <<r_stage, r_input, r_rule, r_converted, r_resolved>>
hash_vars == <<h_stage, h_headers, h_digest>>
registry_vars == <<predefined_field_rules, p_stage, p_headers, p_context>>
flow_vars == <<admin, upload, storage, tmp_storage, tmp_issued, pc, form, passes,
               log, response, skip_admin_log, SKIP_ADMIN_LOG>>
vars == <<resolve_vars, hash_vars, registry_vars, flow_vars>>

(***************************************************************************)
(* Strings.  Python 2 has two string types; a model string is a pair       *)
(* <<type, text>> whose text stands for the UTF-8 bytes of the string.     *)
(***************************************************************************)
Str(t) == <<"str", t>>
Uni(t) == <<"unicode", t>>
Text(s) == s[2]

\* django.utils.encoding.smart_str: a unicode is encoded to a UTF-8 str, a
\* str is returned as it is.
smart_str(s) == IF s[1] = "unicode" THEN <<"str", s[2]>> ELSE s

None == <<"None">>
True == <<"True">>
False == <<"False">>

(***************************************************************************)
(* Sequence helpers (Python list and set operations).                      *)
(***************************************************************************)
Range(s) == {s[i] : i \in DOMAIN s}

RemoveAt(s, i) == SubSeq(s, 1, i - 1) \o SubSeq(s, i + 1, Len(s))

\* list.index: the position of the first occurrence
IndexOf(s, x) == CHOOSE i \in 1..Len(s) : s[i] = x /\ \A j \in 1..(i - 1) : s[j] # x

\* all orders in which the elements of a finite set can be iterated
Orders(S) == {o \in [1..Cardinality(S) -> S] : Range(o) = S}

Max(S) == CHOOSE x \in S : \A y \in S : y <= x

NoDuplicates(s) == \A i, j \in DOMAIN s : s[i] = s[j] => i = j


(***************************************************************************)
(* Bounds of the resolver and header_hash specifications.                  *)
(***************************************************************************)
MaxCols == 3          \* columns of a dataset given to the resolver
MaxResolveRows == 2   \* rows of a dataset given to the resolver
MaxHashLen == 2       \* headers of a list given to header_hash
MaxRows == 3          \* rows of an uploaded file in the import flow
MaxPasses == 3        \* import_data passes in one session of the import flow

(***************************************************************************)
(* tablib.Dataset as the admin code uses it: an ordered header list and    *)
(* ordered rows whose cells are aligned positionally to the headers.       *)
(* tablib keeps an empty header list as None; the model keeps <<>> and     *)
(* treats it as None where the code iterates dataset.headers.              *)
(***************************************************************************)
Dataset(headers, rows) == [headers |-> headers, rows |-> rows]

\* BookImportResource.Meta.fields: the keys of resource.fields
resource_fields == {Str("id"), Str("author_email"), Str("name")}

\* del dataset[header] removing the header and leaving the rows as they are
dataset_delitem_header_only(dataset, header) ==
    Dataset(RemoveAt(dataset.headers, IndexOf(dataset.headers, header)), dataset.rows)

\* del dataset[header]: removes the first column with that header, the header
\* and that cell of every row
dataset_delitem(dataset, header) ==
    LET pos == IndexOf(dataset.headers, header)
    IN  Dataset(RemoveAt(dataset.headers, pos),
                [r \in DOMAIN dataset.rows |-> RemoveAt(dataset.rows[r], pos)])

\* dataset.insert_col(index, (lambda row: value), header=header), index
\* counted from 0
dataset_insert_col(dataset, index, value, header) ==
    LET ins(s, x) == SubSeq(s, 1, index) \o <<x>> \o SubSeq(s, index + 1, Len(s))
    IN  Dataset(ins(dataset.headers, header),
                [r \in DOMAIN dataset.rows |-> ins(dataset.rows[r], value)])

\* rule = {smart_str(k): smart_str(v) for k, v in rule.items()}
smart_rule(rule) ==
    [k \in {smart_str(k0) : k0 \in DOMAIN rule} |->
        smart_str(rule[CHOOSE k0 \in DOMAIN rule : smart_str(k0) = k])]

\* delete_headers = [h for h in dataset.headers
\*                   if h not in rule and h not in resource_fields]
delete_headers(headers, rule) ==
    SelectSeq(headers, LAMBDA h : h \notin DOMAIN rule /\ h \notin resource_fields)

\* for header in delete_headers: del dataset[header]
RECURSIVE delete_columns(_, _)
delete_columns(dataset, headers) ==
    IF headers = <<>> THEN dataset
    ELSE delete_columns(dataset_delitem(dataset, Head(headers)), Tail(headers))

\* new_headers with the two tests in the other order: a header that is a
\* resource field is kept even when the rule renames it
RECURSIVE new_headers_field_first(_, _)
new_headers_field_first(headers, rule) ==
    IF headers = <<>> THEN <<>>
    ELSE LET h == Head(headers)
             rest == new_headers_field_first(Tail(headers), rule)
         IN  IF h \in resource_fields THEN <<h>> \o rest
             ELSE IF h \in DOMAIN rule THEN <<rule[h]>> \o rest
             ELSE rest

\* the loop building new_headers: a header that is a rule key gives the
\* rule's target, else a header that is a resource field is kept, else
\* nothing is appended
RECURSIVE new_headers(_, _)
new_headers(headers, rule) ==
    IF headers = <<>> THEN <<>>
    ELSE LET h == Head(headers)
             rest == new_headers(Tail(headers), rule)
         IN  IF h \in DOMAIN rule THEN <<rule[h]>> \o rest
             ELSE IF h \in resource_fields THEN <<h>> \o rest
             ELSE rest

\* GenericImportMixin.convert_dataset_by_rule
convert_dataset_by_rule(dataset, rule) ==
    LET rule1 == smart_rule(rule)
        d1 == Dataset([i \in DOMAIN dataset.headers |-> smart_str(dataset.headers[i])],
                      dataset.rows)
        d2 == delete_columns(d1, delete_headers(d1.headers, rule1))
    IN  Dataset(new_headers(d2.headers, rule1), d2.rows)

\* empty_fields = set(resource.fields.keys()) ^ set(dataset.headers)
empty_fields(dataset) ==
    (resource_fields \ Range(dataset.headers)) \cup
    (Range(dataset.headers) \ resource_fields)

\* insert_empty_fields appending each column after the last one
RECURSIVE insert_empty_fields_at_end(_, _)
insert_empty_fields_at_end(dataset, order) ==
    IF order = <<>> THEN dataset
    ELSE insert_empty_fields_at_end(
             dataset_insert_col(dataset, Len(dataset.headers), "", Head(order)),
             Tail(order))

\* for f in empty_fields: dataset.insert_col(0, (lambda row: ''), header=f),
\* the set being iterated in the order given
RECURSIVE insert_empty_fields(_, _)
insert_empty_fields(dataset, order) ==
    IF order = <<>> THEN dataset
    ELSE insert_empty_fields(dataset_insert_col(dataset, 0, "", Head(order)),
                             Tail(order))

\* set(dataset.headers) raises TypeError when the headers are None
post_convert_raises(dataset) == dataset.headers = <<>>

\* GenericImportMixin.post_convert_dataset, for one iteration order of the set
post_convert_dataset(dataset, order) == insert_empty_fields(dataset, order)

\* '|'.join(strings)
RECURSIVE join(_, _)
join(sep, strings) ==
    IF strings = <<>> THEN ""
    ELSE IF Len(strings) = 1 THEN Text(strings[1])
    ELSE Text(strings[1]) \o sep \o join(sep, Tail(strings))

\* hashlib.sha1(data).hexdigest(): a digest taken to be free of collisions
sha1_hexdigest(data) == <<"sha1", data>>

\* header_hash over the set of the headers, whatever their order
header_hash_of_set(headers) ==
    sha1_hexdigest({Text(smart_str(headers[i])) : i \in DOMAIN headers})

\* GenericImportMixin.header_hash
header_hash(headers) ==
    sha1_hexdigest(join("|", [i \in DOMAIN headers |-> smart_str(headers[i])]))

(***************************************************************************)
(* Inputs of the resolver specification.                                   *)
(***************************************************************************)
SeqsUpTo(S, n) == UNION {[1..k -> S] : k \in 0..n}

\* header texts of uploaded sheets: the schema's field ids, a display label
\* and a column the schema does not know
HeaderTexts == {"id", "name", "author_email", "Book name", "junk"}

\* keys and targets of import rules; "title" is no field of the resource
RuleKeys == {Uni("Book name"), Uni("name")}
RuleTargets == {Uni("name"), Uni("id"), Uni("title")}
Rules == UNION {[K -> RuleTargets] : K \in SUBSET RuleKeys}

\* the cell of row r under the c-th header of the uploaded sheet
CellMark(r, c) == "r" \o ToString(r) \o "c" \o ToString(c)

\* a codec gives every header the same string type
ResolveDatasets ==
    {Dataset([i \in DOMAIN texts |-> <<kind, texts[i]>>],
             [r \in 1..n |-> [c \in DOMAIN texts |-> CellMark(r, c)]]) :
        texts \in SeqsUpTo(HeaderTexts, MaxCols) \ {<<>>},
        kind \in {"str", "unicode"},
        n \in 0..MaxResolveRows}

HashTexts == {"a", "b", "a|b", "a|a"}
HashHeaderLists ==
    {[i \in DOMAIN texts |-> <<kind, texts[i]>>] :
        texts \in SeqsUpTo(HashTexts, MaxHashLen), kind \in {"str", "unicode"}}

(***************************************************************************)
(* SpecResolve: convert_dataset_by_rule, then post_convert_dataset.        *)
(***************************************************************************)
HashIdle ==
    /\ h_stage = "idle"
    /\ h_headers = <<>>
    /\ h_digest = <<>>

FlowIdle ==
    /\ admin = "none"
    /\ upload = None
    /\ storage = <<>>
    /\ tmp_storage = <<>>
    /\ tmp_issued = 0
    /\ pc = "idle"
    /\ form = [form |-> "none"]
    /\ passes = <<>>
    /\ log = <<>>
    /\ response = "none"
    /\ skip_admin_log = None
    /\ SKIP_ADMIN_LOG = FALSE

RegistryIdle ==
    /\ predefined_field_rules = None
    /\ p_stage = "idle"
    /\ p_headers = <<>>
    /\ p_context = None

ResolveIdle ==
    /\ r_stage = "idle"
    /\ r_input = None
    /\ r_rule = None
    /\ r_converted = None
    /\ r_resolved = None

InitResolve ==
    /\ r_stage = "input"
    /\ r_input \in ResolveDatasets
    /\ r_rule \in Rules
    /\ r_converted = None
    /\ r_resolved = None
    /\ HashIdle
    /\ RegistryIdle
    /\ FlowIdle

ConvertDatasetByRule ==
    /\ r_stage = "input"
    /\ r_converted' = convert_dataset_by_rule(r_input, r_rule)
    /\ r_stage' = "converted"
    /\ UNCHANGED <<r_input, r_rule, r_resolved, hash_vars, registry_vars, flow_vars>>

PostConvertDataset ==
    /\ r_stage = "converted"
    /\ IF post_convert_raises(r_converted)
       THEN /\ r_stage' = "TypeError"
            /\ UNCHANGED r_resolved
       ELSE \E order \in Orders(empty_fields(r_converted)) :
            /\ r_resolved' = post_convert_dataset(r_converted, order)
            /\ r_stage' = "resolved"
    /\ UNCHANGED <<r_input, r_rule, r_converted, hash_vars, registry_vars, flow_vars>>

NextResolve == ConvertDatasetByRule \/ PostConvertDataset

SpecResolve == InitResolve /\ [][NextResolve]_vars

(***************************************************************************)
(* SpecHash: header_hash of two header lists.                              *)
(***************************************************************************)
InitHash ==
    /\ h_stage = "input"
    /\ h_headers \in HashHeaderLists \X HashHeaderLists
    /\ h_digest = <<>>
    /\ ResolveIdle
    /\ RegistryIdle
    /\ FlowIdle

HeaderHash ==
    /\ h_stage = "input"
    /\ h_digest' = <<header_hash(h_headers[1]), header_hash(h_headers[2])>>
    /\ h_stage' = "hashed"
    /\ UNCHANGED <<h_headers, resolve_vars, registry_vars, flow_vars>>

NextHash == HeaderHash

SpecHash == InitHash /\ [][NextHash]_vars

(***************************************************************************)
(* The predefined rule registry.  predefined_field_rules is None or a list *)
(* of rules, <<"list", rules>>; a rule is a list of (header, field) pairs. *)
(***************************************************************************)
MaxPredefinedRules == 2   \* rules listed in predefined_field_rules
MaxContextCols == 2       \* headers of the dataset pre_import_action parsed

List(items) == <<"list", items>>
Items(list) == list[2]

\* [header for header, field in rule]
rule_headers(rule) == [i \in DOMAIN rule |-> rule[i][1]]

\* rule_hash = self.header_hash(headers=[header for header, field in rule])
rule_hash(rule) == header_hash(rule_headers(rule))

\* dict(rule): of two pairs with one header the last one counts
dict(rule) ==
    [h \in Range(rule_headers(rule)) |->
        rule[Max({i \in DOMAIN rule : rule[i][1] = h})][2]]

\* json.dumps(d)
json_dumps(d) == <<"json", d>>

\* the loop over the rules keeping the first rule of every rule_hash
RECURSIVE predefined_rules_first_kept(_, _)
predefined_rules_first_kept(rules, predefined_rules) ==
    IF rules = <<>> THEN predefined_rules
    ELSE predefined_rules_first_kept(
             Tail(rules),
             predefined_rules @@ (rule_hash(Head(rules)) :> json_dumps(dict(Head(rules)))))

\* for rule in self.predefined_field_rules:
\*     predefined_rules[rule_hash] = json.dumps(dict(rule))
RECURSIVE predefined_rules_loop(_, _)
predefined_rules_loop(rules, predefined_rules) ==
    IF rules = <<>> THEN predefined_rules
    ELSE predefined_rules_loop(
             Tail(rules),
             (rule_hash(Head(rules)) :> json_dumps(dict(Head(rules)))) @@ predefined_rules)

\* GenericImportMixin.get_predefined_field_rules_json_map
get_predefined_field_rules_json_map(field_rules) ==
    IF field_rules = None THEN <<>>
    ELSE predefined_rules_loop(Items(field_rules), <<>>)

\* header texts of the layouts the rules are written for; the last one
\* holds the delimiter of header_hash
PlainHeaderTexts == {"Book name", "Email"}
ContextHeaderTexts == PlainHeaderTexts \cup {"Book name|Email"}

\* rules an admin class lists in predefined_field_rules
PredefinedRuleChoices ==
    { <<<<Str("Book name"), Str("name")>>, <<Str("Email"), Str("author_email")>>>>,
      <<<<Str("Email"), Str("author_email")>>, <<Str("Book name"), Str("name")>>>>,
      <<<<Str("Book name"), Str("id")>>, <<Str("Email"), Str("author_email")>>>>,
      <<<<Str("Book name|Email"), Str("name")>>>>,
      <<<<Str("Book name"), Str("name")>>>>,
      <<<<Str("Book name"), Str("id")>>, <<Str("Book name"), Str("name")>>>> }

PredefinedFieldRules ==
    {None} \cup {List(rules) : rules \in SeqsUpTo(PredefinedRuleChoices, MaxPredefinedRules)}

ContextHeaderLists ==
    {[i \in DOMAIN texts |-> <<kind, texts[i]>>] :
        texts \in SeqsUpTo(ContextHeaderTexts, MaxContextCols) \ {<<>>},
        kind \in {"str", "unicode"}}

(***************************************************************************)
(* SpecRegistry: what pre_import_action puts in the context of its         *)
(* response for a parsed dataset.                                          *)
(***************************************************************************)
InitRegistry ==
    /\ predefined_field_rules \in PredefinedFieldRules
    /\ p_stage = "input"
    /\ p_headers \in ContextHeaderLists
    /\ p_context = None
    /\ ResolveIdle
    /\ HashIdle
    /\ FlowIdle

\* context['header_hash'], context['predefined_field_rules']
PreImportContext ==
    /\ p_stage = "input"
    /\ p_context' =
          [header_hash |-> header_hash(p_headers),
           predefined_field_rules |->
               get_predefined_field_rules_json_map(predefined_field_rules)]
    /\ p_stage' = "rendered"
    /\ UNCHANGED <<predefined_field_rules, p_headers, resolve_vars, hash_vars,
                   flow_vars>>

NextRegistry == PreImportContext

SpecRegistry == InitRegistry /\ [][NextRegistry]_vars


(***************************************************************************)
(* The import engine, resource.import_data (import_export/resources.py),   *)
(* as sections 4.2 and 4.3 of the specification describe it.               *)
(*                                                                         *)
(* Record storage maps a record id (a positive integer) to the record's    *)
(* other fields.  A RowResult is a record [import_type, object_id, diff,   *)
(* error]; object_id 0 stands for "not known".                             *)
(***************************************************************************)
IMPORT_TYPE_NEW == "new"
IMPORT_TYPE_UPDATE == "update"
IMPORT_TYPE_DELETE == "delete"
IMPORT_TYPE_SKIP == "skip"
IMPORT_TYPE_ERROR == "error"

NoId == 0

\* the integer a key cell is read as; any other non-empty cell fails to coerce
KeyOfCell == ("1" :> 1) @@ ("2" :> 2)

\* the row as a dict keyed by header: of two columns with one header the
\* last one counts, a header the dataset lacks reads as the empty cell
RowValue(dataset, r, field) ==
    LET cols == {c \in DOMAIN dataset.headers : Text(dataset.headers[c]) = field}
    IN  IF cols = {} THEN "" ELSE dataset.rows[r][Max(cols)]

\* the fields of the schema other than the import key
ValueFields == {"name", "author_email"}

\* object_repr is the text of the record the row is about: its name
RowResult(type, id, repr, diff, error) ==
    [import_type |-> type, object_id |-> id, object_repr |-> repr, diff |-> diff,
     error |-> error]

\* the per-field comparison: the key under integer coercion, the other
\* fields as text; the result holds the changed fields only
FieldDiff(dataset, r, id, record) ==
    {[field |-> f, old |-> record[f], new |-> RowValue(dataset, r, f)] :
        f \in {g \in ValueFields : RowValue(dataset, r, g) # record[g]}}
    \cup (IF KeyOfCell[RowValue(dataset, r, "id")] # id
          THEN {[field |-> "id", old |-> ToString(id), new |-> RowValue(dataset, r, "id")]}
          ELSE {})

\* section 4.2: the classification of row r against the storage st
diff_row(dataset, r, st) ==
    LET cell == RowValue(dataset, r, "id")
        key == IF cell = "" THEN NoId ELSE KeyOfCell[cell]
        present == key # NoId /\ key \in DOMAIN st
        values == [f \in ValueFields |-> RowValue(dataset, r, f)]
    IN  IF cell # "" /\ cell \notin DOMAIN KeyOfCell
        THEN RowResult(IMPORT_TYPE_ERROR, NoId, "", {}, "coercion")
        ELSE IF RowValue(dataset, r, "delete") # ""
        THEN RowResult(IMPORT_TYPE_DELETE, IF present THEN key ELSE NoId,
                       IF present THEN st[key].name ELSE values.name, {}, "")
        ELSE IF ~present
        THEN IF cell = "" /\ \A f \in ValueFields : values[f] = ""
             THEN RowResult(IMPORT_TYPE_SKIP, NoId, values.name, {}, "")
             ELSE RowResult(IMPORT_TYPE_NEW, key, values.name,
                            {[field |-> f, old |-> "", new |-> values[f]] : f \in ValueFields}
                            \cup {[field |-> "id", old |-> "", new |-> cell]}, "")
        ELSE LET changed == FieldDiff(dataset, r, key, st[key])
             IN  IF changed = {}
                 THEN RowResult(IMPORT_TYPE_SKIP, key, values.name, {}, "")
                 ELSE RowResult(IMPORT_TYPE_UPDATE, key, values.name, changed, "")

\* the id storage gives a record created without a key
NextId(st) == Max(DOMAIN st \cup {0}) + 1

\* section 4.3 step 3: the write of a classified row, in its own transaction
apply_row(dataset, r, st, result) ==
    LET values == [f \in ValueFields |-> RowValue(dataset, r, f)]
        id == IF result.object_id = NoId THEN NextId(st) ELSE result.object_id
    IN  IF result.import_type = IMPORT_TYPE_NEW
        THEN [result |-> [result EXCEPT !.object_id = id],
              storage |-> (id :> values) @@ st]
        ELSE IF result.import_type = IMPORT_TYPE_UPDATE
        THEN [result |-> result, storage |-> [st EXCEPT ![id] = values]]
        ELSE IF result.import_type = IMPORT_TYPE_DELETE
        THEN [result |-> result,
              storage |-> [k \in DOMAIN st \ {result.object_id} |-> st[k]]]
        ELSE [result |-> result, storage |-> st]

\* one row of a pass: in a dry run nothing is written; in a commit a write
\* that fails is rolled back and the row is an ERROR
import_row(dataset, r, st, dry_run, fail) ==
    LET result == diff_row(dataset, r, st)
        writes == result.import_type \in
                     {IMPORT_TYPE_NEW, IMPORT_TYPE_UPDATE, IMPORT_TYPE_DELETE}
    IN  IF dry_run \/ ~writes THEN [result |-> result, storage |-> st]
        ELSE IF fail = r
        THEN [result |-> RowResult(IMPORT_TYPE_ERROR, NoId, "", {}, "write"),
              storage |-> st]
        ELSE apply_row(dataset, r, st, result)

RECURSIVE import_rows(_, _, _, _, _, _)
import_rows(dataset, r, st, dry_run, fail, rows) ==
    IF r > Len(dataset.rows) THEN [rows |-> rows, storage |-> st]
    ELSE LET step == import_row(dataset, r, st, dry_run, fail)
         IN  import_rows(dataset, r + 1, step.storage, dry_run, fail,
                         Append(rows, step.result))

\* Result.has_errors()
has_errors(rows) == \E i \in DOMAIN rows : rows[i].import_type = IMPORT_TYPE_ERROR

\* section 4.3: import_data(dataset, dry_run, raise_errors) over the storage
\* st, the write of row `fail` failing (0: no write fails).  With raise_errors
\* the pass raises after every row was attempted when a row is an ERROR.
import_data(dataset, st, dry_run, raise_errors, fail) ==
    LET done == import_rows(dataset, 1, st, dry_run, fail, <<>>)
    IN  [rows |-> done.rows, storage |-> done.storage,
         raised |-> raise_errors /\ has_errors(done.rows)]

(***************************************************************************)
(* Format codecs (formats/base_formats.py).  Saved data is                 *)
(* [format, headers, rows]: the format it is written in and the texts of   *)
(* the table.  Parsing gives every header the string type of the format:   *)
(* CSV reads byte strings, JSON reads unicode.                             *)
(***************************************************************************)
Formats == {"csv", "json"}

\* TablibFormat.export_data
export_data(input_format, dataset) ==
    [format |-> input_format,
     headers |-> [i \in DOMAIN dataset.headers |-> Text(dataset.headers[i])],
     rows |-> dataset.rows]

\* create_dataset raises on data that is not in the format chosen
create_dataset_raises(input_format, data) == data.format # input_format

\* TablibFormat.create_dataset, CSV.create_dataset
create_dataset(input_format, data) ==
    Dataset([i \in DOMAIN data.headers |->
                <<IF input_format = "csv" THEN "str" ELSE "unicode", data.headers[i]>>],
            data.rows)

(***************************************************************************)
(* The import flow: the views of ImportMixin and GenericImportMixin.       *)
(***************************************************************************)
\* import_action passing dry_run=False
import_action_commits == FALSE

\* process_import passing dry_run=True
process_import_previews == TRUE

\* the arguments the views pass to import_data
import_action_dry_run == TRUE
import_action_raise_errors == FALSE
generic_import_action_dry_run == TRUE
generic_import_action_raise_errors == FALSE
process_import_dry_run == FALSE
process_import_raise_errors == TRUE

\* one pass of import_data, as the flow records it
Pass(handler, dataset, dry_run, before, result, fail) ==
    [handler |-> handler, dataset |-> dataset, dry_run |-> dry_run,
     before |-> before, after |-> result.storage, rows |-> result.rows,
     raised |-> result.raised, fail |-> fail]

\* tmp_storage.save(data, mode) on a new TempFolderStorage: a new handle name
tmp_save(files, name, data) == (name :> data) @@ files

\* tmp_storage.remove()
tmp_remove(files, name) == [n \in DOMAIN files \ {name} |-> files[n]]

\* ImportMixin.get_skip_admin_log; the attribute is None, True or False
get_skip_admin_log(attribute, setting) ==
    IF attribute = None THEN setting ELSE attribute = True

\* the action flags of django.contrib.admin.models
ADDITION == "ADDITION"
CHANGE == "CHANGE"
DELETION == "DELETION"

\* logentry_map without an action flag for IMPORT_TYPE_DELETE
logentry_map_without_delete ==
    (IMPORT_TYPE_NEW :> ADDITION) @@ (IMPORT_TYPE_UPDATE :> CHANGE)

\* the action flag process_import logs for each import type
logentry_map ==
    (IMPORT_TYPE_NEW :> ADDITION) @@ (IMPORT_TYPE_UPDATE :> CHANGE) @@
    (IMPORT_TYPE_DELETE :> DELETION)

\* logentry_map[row.import_type] raises KeyError for some row of the Result
log_raises(rows) ==
    \E i \in DOMAIN rows :
        rows[i].import_type \notin DOMAIN logentry_map \cup {IMPORT_TYPE_SKIP}

\* the LogEntry rows the loop of process_import writes for a Result, up to
\* the first row whose import type has no action flag
RECURSIVE log_entries(_)
log_entries(rows) ==
    IF rows = <<>> THEN <<>>
    ELSE LET row == Head(rows)
         IN  IF row.import_type = IMPORT_TYPE_SKIP THEN log_entries(Tail(rows))
             ELSE IF row.import_type \notin DOMAIN logentry_map THEN <<>>
             ELSE <<[action_flag |-> logentry_map[row.import_type],
                     object_id |-> row.object_id,
                     object_repr |-> row.object_repr]>> \o log_entries(Tail(rows))

\* no form in the response
NoForm == [form |-> "none"]

ConfirmImportForm(import_file_name, original_file_name, input_format) ==
    [form |-> "ConfirmImportForm", import_file_name |-> import_file_name,
     original_file_name |-> original_file_name, input_format |-> input_format]

PreImportForm(import_file_name, original_file_name, input_format) ==
    [form |-> "PreImportForm", import_file_name |-> import_file_name,
     original_file_name |-> original_file_name, input_format |-> input_format]

\* a confirm form in the response of every preview
confirm_form_always(rows) == TRUE

\* `if not result.has_errors()`: the response gets a confirm form
confirm_form_offered(rows) == ~has_errors(rows)

\* ImportMixin.import_action
import_action ==
    /\ admin = "ImportMixin"
    /\ pc \in {"start", "committed"}
    /\ Len(passes) < MaxPasses
    /\ \/ \* no POST, or the ImportForm is not valid: the empty form is rendered
          /\ response' = "import_form"
          /\ UNCHANGED <<admin, upload, storage, tmp_storage, tmp_issued, pc, form,
                         passes, log>>
       \/ \E input_format \in Formats :
            LET name == tmp_issued + 1
            IN  /\ tmp_issued' = name
                /\ tmp_storage' = tmp_save(tmp_storage, name, upload.data)
                /\ IF create_dataset_raises(input_format, upload.data)
                   THEN /\ response' = "read_error"
                        /\ pc' = "stopped"
                        /\ form' = NoForm
                        /\ UNCHANGED <<storage, passes>>
                   ELSE \E dataset \in {create_dataset(input_format, upload.data)} :
                        \E result \in {import_data(dataset, storage, import_action_dry_run,
                                                    import_action_raise_errors, 0)} :
                            /\ storage' = result.storage
                            /\ passes' = Append(passes,
                                   Pass("import_action", dataset, import_action_dry_run,
                                        storage, result, 0))
                            /\ form' = IF confirm_form_offered(result.rows)
                                       THEN ConfirmImportForm(name, upload.name, input_format)
                                       ELSE NoForm
                            /\ pc' = "previewed"
                            /\ response' = "preview"
                /\ UNCHANGED <<admin, upload, log>>
    /\ UNCHANGED <<resolve_vars, hash_vars, registry_vars, skip_admin_log,
                   SKIP_ADMIN_LOG>>

\* GenericImportMixin.pre_import_action
pre_import_action ==
    /\ admin = "GenericImportMixin"
    /\ pc \in {"start", "committed"}
    /\ Len(passes) < MaxPasses
    /\ \/ /\ response' = "pre_import_form"
          /\ UNCHANGED <<admin, upload, storage, tmp_storage, tmp_issued, pc, form,
                         passes, log>>
       \/ \E input_format \in Formats :
            LET name == tmp_issued + 1
            IN  /\ tmp_issued' = name
                /\ tmp_storage' = tmp_save(tmp_storage, name, upload.data)
                /\ IF create_dataset_raises(input_format, upload.data)
                   THEN /\ response' = "read_error"
                        /\ pc' = "stopped"
                        /\ form' = NoForm
                   ELSE /\ response' = "mapping"
                        /\ pc' = "pre_imported"
                        /\ form' = PreImportForm(name, upload.name, input_format)
                /\ UNCHANGED <<admin, upload, storage, passes, log>>
    /\ UNCHANGED <<resolve_vars, hash_vars, registry_vars, skip_admin_log,
                   SKIP_ADMIN_LOG>>

\* rules the operator submits with the PreImportForm
FlowRules == {<<>>, (Uni("Book name") :> Uni("name"))}

\* the confirm blob holding the data as it was uploaded
confirm_blob_of_upload(input_format, data, dataset) == data

\* what GenericImportMixin.import_action saves for the commit: the dataset it
\* gave to import_data, written in the input format
confirm_blob(input_format, data, dataset) == export_data(input_format, dataset)

\* GenericImportMixin.import_action
generic_import_action ==
    /\ admin = "GenericImportMixin"
    /\ pc = "pre_imported"
    /\ \/ /\ response' = "import_form"
          /\ UNCHANGED <<admin, upload, storage, tmp_storage, tmp_issued, pc, form,
                         passes, log>>
       \/ \E import_rule \in FlowRules :
            LET data == tmp_storage[form.import_file_name]
                parsed == create_dataset(form.input_format, data)
                converted == convert_dataset_by_rule(parsed, import_rule)
            IN  IF create_dataset_raises(form.input_format, data)
                THEN /\ response' = "read_error"
                     /\ pc' = "stopped"
                     /\ form' = NoForm
                     /\ UNCHANGED <<admin, upload, storage, tmp_storage, tmp_issued,
                                    passes, log>>
                ELSE IF post_convert_raises(converted)
                THEN /\ response' = "exception"
                     /\ pc' = "stopped"
                     /\ form' = NoForm
                     /\ UNCHANGED <<admin, upload, storage, tmp_storage, tmp_issued,
                                    passes, log>>
                ELSE \E order \in Orders(empty_fields(converted)) :
                     \E dataset \in {post_convert_dataset(converted, order)} :
                     \E result \in {import_data(dataset, storage,
                                                 generic_import_action_dry_run,
                                                 generic_import_action_raise_errors, 0)} :
                     LET name == tmp_issued + 1
                     IN  /\ storage' = result.storage
                         /\ passes' = Append(passes,
                                Pass("generic_import_action", dataset,
                                     generic_import_action_dry_run, storage, result, 0))
                         /\ IF confirm_form_offered(result.rows)
                            THEN /\ tmp_issued' = name
                                 /\ tmp_storage' =
                                       tmp_save(tmp_storage, name,
                                                confirm_blob(form.input_format, data,
                                                             dataset))
                                 /\ form' = ConfirmImportForm(name, form.original_file_name,
                                                              form.input_format)
                            ELSE /\ form' = NoForm
                                 /\ UNCHANGED <<tmp_storage, tmp_issued>>
                         /\ pc' = "previewed"
                         /\ response' = "preview"
                         /\ UNCHANGED <<admin, upload, log>>
    /\ UNCHANGED <<resolve_vars, hash_vars, registry_vars, skip_admin_log,
                   SKIP_ADMIN_LOG>>

\* ImportMixin.process_import.  The write of row `fail` fails (0: none does).
\* When import_data raises, the exception leaves the view: nothing is logged
\* or removed.  A KeyError of the logging loop leaves the view as well, after
\* the entries of the rows before it were written.
process_import ==
    /\ pc = "previewed"
    /\ form # NoForm
    /\ \/ \* the ConfirmImportForm is not valid
          /\ response' = "forbidden"
          /\ UNCHANGED <<admin, upload, storage, tmp_storage, tmp_issued, pc, form,
                         passes, log>>
       \/ \E fail \in 0..MaxRows :
            \E dataset \in {create_dataset(form.input_format,
                                            tmp_storage[form.import_file_name])} :
            \E result \in {import_data(dataset, storage, process_import_dry_run,
                                        process_import_raise_errors, fail)} :
                /\ fail <= Len(dataset.rows)
                /\ storage' = result.storage
                /\ passes' = Append(passes,
                       Pass("process_import", dataset, process_import_dry_run,
                            storage, result, fail))
                /\ IF result.raised
                   THEN /\ response' = "exception"
                        /\ pc' = "stopped"
                        /\ UNCHANGED <<tmp_storage, log>>
                   ELSE IF get_skip_admin_log(skip_admin_log, SKIP_ADMIN_LOG)
                   THEN /\ tmp_storage' = tmp_remove(tmp_storage, form.import_file_name)
                        /\ response' = "redirect"
                        /\ pc' = "committed"
                        /\ UNCHANGED log
                   ELSE /\ log' = log \o log_entries(result.rows)
                        /\ IF log_raises(result.rows)
                           THEN /\ response' = "exception"
                                /\ pc' = "stopped"
                                /\ UNCHANGED tmp_storage
                           ELSE /\ tmp_storage' =
                                      tmp_remove(tmp_storage, form.import_file_name)
                                /\ response' = "redirect"
                                /\ pc' = "committed"
                /\ form' = NoForm
                /\ UNCHANGED <<admin, upload, tmp_issued>>
    /\ UNCHANGED <<resolve_vars, hash_vars, registry_vars, skip_admin_log,
                   SKIP_ADMIN_LOG>>

(***************************************************************************)
(* Inputs of the import flow.                                              *)
(***************************************************************************)
\* rows of an uploaded sheet: <<id, name, author_email, delete marker>>
SheetRows ==
    { <<"", "A", "e", "">>,      \* no key
      <<"", "", "", "">>,        \* every cell empty
      <<"1", "A", "e", "">>,     \* key 1
      <<"1", "A", "", "">>,      \* key 1, another author_email
      <<"1", "", "", "">>,       \* key 1, both other fields empty
      <<"1", "A", "e", "1">>,    \* key 1, marked for deletion
      <<"1", "", "e", "1">>,     \* key 1, another name, marked for deletion
      <<"x", "A", "e", "">> }    \* a key that is no integer

\* a sheet in the schema's own headers, with a delete marker column
PlainSheets ==
    {Dataset(<<Str("id"), Str("name"), Str("author_email"), Str("delete")>>, rows) :
        rows \in SeqsUpTo(SheetRows, MaxRows)}

\* a sheet that labels the name column as the display label does and has no
\* delete marker column
LabelledSheets ==
    {Dataset(<<Str("id"), Str("Book name"), Str("author_email")>>, rows) :
        rows \in SeqsUpTo({SubSeq(row, 1, 3) : row \in {x \in SheetRows : x[4] = ""}},
                          MaxRows)}

\* the uploaded file holds the sheet as CSV
Uploads(sheets) ==
    {[name |-> "books", data |-> export_data("csv", d)] : d \in sheets}

InitialStorages == {<<>>, (1 :> [name |-> "A", author_email |-> "e"])}

Init ==
    /\ admin \in {"ImportMixin", "GenericImportMixin"}
    /\ upload \in Uploads(IF admin = "ImportMixin" THEN PlainSheets ELSE LabelledSheets)
    /\ storage \in InitialStorages
    /\ tmp_storage = <<>>
    /\ tmp_issued = 0
    /\ pc = "start"
    /\ form = NoForm
    /\ passes = <<>>
    /\ log = <<>>
    /\ response = "none"
    /\ skip_admin_log = None
    /\ SKIP_ADMIN_LOG = FALSE
    /\ ResolveIdle
    /\ HashIdle
    /\ RegistryIdle

Next ==
    \/ import_action
    \/ pre_import_action
    \/ generic_import_action
    \/ process_import

Spec == Init /\ [][Next]_vars

(***************************************************************************)
(* SpecAudit: the import flow under every configuration of the admin log,  *)
(* over the sheets of at most MaxAuditRows rows.                           *)
(***************************************************************************)
MaxAuditRows == 2

AuditSheets(sheets) == {d \in sheets : Len(d.rows) <= MaxAuditRows}

InitAudit ==
    /\ admin \in {"ImportMixin", "GenericImportMixin"}
    /\ upload \in Uploads(AuditSheets(IF admin = "ImportMixin" THEN PlainSheets
                                      ELSE LabelledSheets))
    /\ storage \in InitialStorages
    /\ tmp_storage = <<>>
    /\ tmp_issued = 0
    /\ pc = "start"
    /\ form = NoForm
    /\ passes = <<>>
    /\ log = <<>>
    /\ response = "none"
    /\ skip_admin_log \in {None, True, False}
    /\ SKIP_ADMIN_LOG \in BOOLEAN
    /\ ResolveIdle
    /\ HashIdle
    /\ RegistryIdle

SpecAudit == InitAudit /\ [][Next]_vars

(***************************************************************************)
(* Claims about the field resolver (SpecResolve) and header_hash           *)
(* (SpecHash).                                                             *)
(***************************************************************************)
Count(s, x) == Cardinality({i \in DOMAIN s : s[i] = x})

\* the rule key whose text is t, when there is one
HasRuleKey(rule, t) == \E k \in DOMAIN rule : Text(k) = t
RuleTarget(rule, t) == Text(rule[CHOOSE k \in DOMAIN rule : Text(k) = t])
IsFieldId(t) == \E f \in resource_fields : Text(f) = t

\* column i of the input is retained by the conversion
Retained(i) ==
    HasRuleKey(r_rule, Text(r_input.headers[i])) \/ IsFieldId(Text(r_input.headers[i]))

\* the position column i of the input has among the retained columns
Rank(i) == Cardinality({j \in 1..i : Retained(j)})

Converted == r_stage \in {"converted", "resolved", "TypeError"}

\* C2: after convert_dataset_by_rule the retained columns are, in the input's
\* order, exactly the columns whose header is a rule key or a schema field id;
\* a rule key gives the rule's target (also when it is a schema field id), a
\* schema field id that is no rule key is kept, every other column is removed
\* with its cell in every row, and no other header is produced.
C2_ConvertByRule ==
    Converted =>
        LET n == Cardinality({i \in DOMAIN r_input.headers : Retained(i)})
        IN  /\ Len(r_converted.headers) = n
            /\ Len(r_converted.rows) = Len(r_input.rows)
            /\ \A r \in DOMAIN r_converted.rows : Len(r_converted.rows[r]) = n
            /\ \A i \in DOMAIN r_input.headers :
                 Retained(i) =>
                    LET t == Text(r_input.headers[i])
                    IN  /\ r_converted.headers[Rank(i)] =
                             Str(IF HasRuleKey(r_rule, t) THEN RuleTarget(r_rule, t) ELSE t)
                        /\ \A r \in DOMAIN r_input.rows :
                             r_converted.rows[r][Rank(i)] = r_input.rows[r][i]

\* C2 witness: a converted dataset with rows in which one header was renamed
\* although it is a schema field id, one schema field id was kept and one
\* column was removed.
C2_Witness ==
    /\ r_stage = "converted"
    /\ Len(r_input.rows) > 0
    /\ \E i, j, k \in DOMAIN r_input.headers :
         /\ HasRuleKey(r_rule, Text(r_input.headers[i]))
         /\ IsFieldId(Text(r_input.headers[i]))
         /\ RuleTarget(r_rule, Text(r_input.headers[i])) # Text(r_input.headers[i])
         /\ ~HasRuleKey(r_rule, Text(r_input.headers[j]))
         /\ IsFieldId(Text(r_input.headers[j]))
         /\ ~Retained(k)

\* C3: after post_convert_dataset every schema field id is a header, and the
\* inserted columns are exactly the schema field ids that were absent before
\* the call, one column each, with every cell empty; no column is inserted
\* for any other header.
C3_BackFillExactlyMissingFields ==
    r_stage = "resolved" =>
        /\ resource_fields \subseteq Range(r_resolved.headers)
        /\ \A x \in Range(r_resolved.headers) \cup resource_fields :
             Count(r_resolved.headers, x) =
                Count(r_converted.headers, x) +
                (IF x \in resource_fields /\ x \notin Range(r_converted.headers)
                 THEN 1 ELSE 0)

\* C4 as stated: the example resolves to [name, author_email, id], the
\* renamed and kept headers first and the back-filled fields after them.
C4_BackFillAfterKeptHeaders ==
    r_stage = "resolved" =>
        /\ SubSeq(r_resolved.headers, 1, Len(r_converted.headers)) = r_converted.headers
        /\ ( /\ [i \in DOMAIN r_input.headers |-> Text(r_input.headers[i])] =
                    <<"Book name", "author_email">>
             /\ r_rule = (Uni("Book name") :> Uni("name"))
             => r_resolved.headers = <<Str("name"), Str("author_email"), Str("id")>> )

\* C4 amended: the example resolves to [id, name, author_email]; the renamed
\* and kept headers keep their relative order and come after the inserted
\* columns, which are put at the front, and every inserted cell is empty.
C4_BackFillBeforeKeptHeaders ==
    r_stage = "resolved" =>
        LET n == Len(r_resolved.headers) - Len(r_converted.headers)
        IN  /\ n >= 0
            /\ SubSeq(r_resolved.headers, n + 1, Len(r_resolved.headers)) =
                  r_converted.headers
            /\ \A r \in DOMAIN r_resolved.rows :
                 /\ SubSeq(r_resolved.rows[r], n + 1, Len(r_resolved.rows[r])) =
                       r_converted.rows[r]
                 /\ \A c \in 1..n : r_resolved.rows[r][c] = ""
            /\ ( /\ [i \in DOMAIN r_input.headers |-> Text(r_input.headers[i])] =
                        <<"Book name", "author_email">>
                 /\ r_rule = (Uni("Book name") :> Uni("name"))
                 => r_resolved.headers = <<Str("id"), Str("name"), Str("author_email")>> )

\* C4 witness: the example of the spec, resolved, with a row.
C4_Witness ==
    /\ r_stage = "resolved"
    /\ [i \in DOMAIN r_input.headers |-> Text(r_input.headers[i])] =
          <<"Book name", "author_email">>
    /\ r_rule = (Uni("Book name") :> Uni("name"))
    /\ Len(r_input.rows) > 0

\* C5: the header list handed to import_data after convert_dataset_by_rule
\* and post_convert_dataset holds no header twice.
C5_ResolvedHeadersUnique ==
    r_stage = "resolved" => NoDuplicates(r_resolved.headers)

\* C6: header_hash gives equal header lists the same digest and different
\* header lists, a reordering of the same headers among them, different
\* digests.
C6_HeaderHashSeparatesLists ==
    h_stage = "hashed" =>
        LET a == [i \in DOMAIN h_headers[1] |-> Text(h_headers[1][i])]
            b == [i \in DOMAIN h_headers[2] |-> Text(h_headers[2][i])]
        IN  (h_digest[1] = h_digest[2]) <=> (a = b)


(***************************************************************************)
(* Claims about the import flow (Spec).                                    *)
(***************************************************************************)
Previews == {"import_action", "generic_import_action"}
Writing == {IMPORT_TYPE_NEW, IMPORT_TYPE_UPDATE, IMPORT_TYPE_DELETE}

\* two passes were given the same table: the same header texts and rows
SameTable(d1, d2) ==
    /\ [i \in DOMAIN d1.headers |-> Text(d1.headers[i])] =
          [i \in DOMAIN d2.headers |-> Text(d2.headers[i])]
    /\ d1.rows = d2.rows

NoWriteFailed(p) == \A r \in DOMAIN p.rows : p.rows[r].error # "write"

\* C1: a dry-run pass and the commit pass that follows it on the same
\* dataset, storage untouched in between and no write failing, give every
\* row the same import_type and the same object_id.
C1_TwoPhaseDeterminism ==
    \A i \in 1..(Len(passes) - 1) :
        ( /\ passes[i].handler \in Previews
          /\ passes[i + 1].handler = "process_import"
          /\ SameTable(passes[i].dataset, passes[i + 1].dataset)
          /\ passes[i].after = passes[i + 1].before
          /\ NoWriteFailed(passes[i + 1]) )
        => \A r \in DOMAIN passes[i].rows :
             /\ passes[i].rows[r].import_type = passes[i + 1].rows[r].import_type
             /\ passes[i].rows[r].object_id = passes[i + 1].rows[r].object_id

\* C7: a dry-run pass over the dataset a commit pass has just imported,
\* storage untouched in between and no write having failed, classifies
\* every row as SKIP.
C7_CommitIsIdempotent ==
    \A i \in 1..(Len(passes) - 1) :
        ( /\ passes[i].handler = "process_import"
          /\ passes[i + 1].handler \in Previews
          /\ SameTable(passes[i].dataset, passes[i + 1].dataset)
          /\ passes[i].after = passes[i + 1].before
          /\ NoWriteFailed(passes[i]) )
        => \A r \in DOMAIN passes[i + 1].rows :
             passes[i + 1].rows[r].import_type = IMPORT_TYPE_SKIP

\* the dataset without its row k
WithoutRow(dataset, k) == Dataset(dataset.headers, RemoveAt(dataset.rows, k))

\* the commit pass p met the failing write of row p.fail: without the failure
\* that row would have written
WriteOfRowFails(p) ==
    /\ p.handler = "process_import"
    /\ p.fail # 0
    /\ import_data(p.dataset, p.before, FALSE, FALSE, 0).rows[p.fail].import_type
          \in Writing

ChangedIds(before, after) ==
    {id \in DOMAIN before \cup DOMAIN after :
        \/ id \notin DOMAIN before
        \/ id \notin DOMAIN after
        \/ before[id] # after[id]}

\* C9: a preview (import_action of either admin class) leaves record storage
\* as it was, whatever the row outcomes are; and a commit changes only
\* records that are the object of a row that is not a SKIP.
C9_DryRunWritesNothing ==
    [][ Len(passes') > Len(passes) =>
          LET p == passes'[Len(passes')]
          IN  /\ p.handler \in Previews => storage' = storage
              /\ \A id \in ChangedIds(storage, storage') :
                   \E r \in DOMAIN p.rows :
                      /\ p.rows[r].import_type \in Writing
                      /\ p.rows[r].object_id = id ]_vars

\* C9 witness: a preview whose rows would create, update and delete, over a
\* storage that holds a record.
C9_Witness ==
    \E i \in DOMAIN passes :
        /\ passes[i].handler \in Previews
        /\ passes[i].before # <<>>
        /\ \E r \in DOMAIN passes[i].rows : passes[i].rows[r].import_type = IMPORT_TYPE_NEW
        /\ \E r \in DOMAIN passes[i].rows : passes[i].rows[r].import_type = IMPORT_TYPE_UPDATE
        /\ \E r \in DOMAIN passes[i].rows : passes[i].rows[r].import_type = IMPORT_TYPE_DELETE

Texts(headers) == [i \in DOMAIN headers |-> Text(headers[i])]

ConfiguredRules ==
    IF predefined_field_rules = None THEN <<>> ELSE Items(predefined_field_rules)

\* two rules list the same pairs, in whatever order
SamePairs(a, b) == Len(a) = Len(b) /\ Range(a) = Range(b)

\* two header lists hold the same headers, in whatever order
SameHeaderSet(a, b) == Len(a) = Len(b) /\ Range(Texts(a)) = Range(Texts(b))

\* no header of the list holds the delimiter of header_hash
DelimiterFree(headers) == Range(Texts(headers)) \subseteq PlainHeaderTexts

LastOfHash(i) ==
    Max({j \in DOMAIN ConfiguredRules :
            rule_hash(ConfiguredRules[j]) = rule_hash(ConfiguredRules[i])})

AuditEntry(row) ==
    [action_flag |-> CASE row.import_type = IMPORT_TYPE_NEW -> "ADDITION"
                       [] row.import_type = IMPORT_TYPE_UPDATE -> "CHANGE"
                       [] row.import_type = IMPORT_TYPE_DELETE -> "DELETION"
                       [] OTHER -> "none",
     object_id |-> row.object_id,
     object_repr |-> row.object_repr]

RECURSIVE AuditEntries(_)
AuditEntries(rows) ==
    IF rows = <<>> THEN <<>>
    ELSE (IF Head(rows).import_type = IMPORT_TYPE_SKIP THEN <<>>
          ELSE <<AuditEntry(Head(rows))>>) \o AuditEntries(Tail(rows))

\* the entries of all commit passes in which import_data did not raise
RECURSIVE AuditTrail(_)
AuditTrail(ps) ==
    IF ps = <<>> THEN <<>>
    ELSE (IF Head(ps).handler = "process_import" /\ ~Head(ps).raised
          THEN AuditEntries(Head(ps).rows) ELSE <<>>) \o AuditTrail(Tail(ps))

\* C16: when admin logging is not skipped the log holds, for every commit
\* whose import_data returned, one entry per row that is no SKIP, in row
\* order, with ADDITION for NEW, CHANGE for UPDATE, DELETION for DELETE and
\* the row's object_id and object_repr; every row that reaches the loop is a
\* NEW, UPDATE, DELETE or SKIP, so the loop never fails on an unmapped type.
\* Nothing is logged when logging is skipped: by the attribute skip_admin_log
\* when it is not None, else by the setting.
C16_AuditLogOfCommit ==
    /\ skip_admin_log = True => log = <<>>
    /\ skip_admin_log = False => log = AuditTrail(passes)
    /\ skip_admin_log = None =>
          log = IF SKIP_ADMIN_LOG THEN <<>> ELSE AuditTrail(passes)
    /\ \A i \in DOMAIN passes :
          passes[i].handler = "process_import" /\ ~passes[i].raised =>
             \A r \in DOMAIN passes[i].rows :
                passes[i].rows[r].import_type \in
                   {IMPORT_TYPE_NEW, IMPORT_TYPE_UPDATE, IMPORT_TYPE_DELETE,
                    IMPORT_TYPE_SKIP}
    /\ ( /\ response = "exception"
         /\ passes # <<>>
         /\ passes[Len(passes)].handler = "process_import" )
       => passes[Len(passes)].raised

\* C16 witness: the setting skips the log and the attribute turns it on; a
\* commit of a SKIP row and a row that deletes a record has logged one
\* DELETION.
C16_Witness ==
    /\ pc = "committed"
    /\ skip_admin_log = False
    /\ SKIP_ADMIN_LOG
    /\ Len(passes[Len(passes)].rows) = 2
    /\ \E r \in DOMAIN passes[Len(passes)].rows :
          passes[Len(passes)].rows[r].import_type = IMPORT_TYPE_SKIP
    /\ Len(log) = 1
    /\ log[1].action_flag = DELETION
    /\ log[1].object_id = 1


(***************************************************************************)
(* Further claims about the import flow (Spec).                            *)
(***************************************************************************)
LastPass == passes[Len(passes)]

NoErrorRow(rows) == \A r \in DOMAIN rows : rows[r].import_type # IMPORT_TYPE_ERROR

\* C11: a handler that answers with an error outcome, because the uploaded
\* data cannot be parsed or the submitted form is not valid, has not called
\* import_data, has changed no record and has left nothing behind, a saved
\* temporary blob included.
C11_ErrorsFailFast ==
    [][ response' \in {"read_error", "forbidden", "import_form", "pre_import_form"} =>
          /\ passes' = passes
          /\ storage' = storage
          /\ log' = log
          /\ tmp_storage' = tmp_storage ]_vars

C15_CommitImportsPreviewedDataset ==
    [][ admin = "GenericImportMixin" /\ Len(passes') > Len(passes) =>
          LET p == passes'[Len(passes')]
          IN  /\ p.handler = "generic_import_action" /\ form' # NoForm =>
                    /\ form'.import_file_name \notin DOMAIN tmp_storage
                    /\ form'.import_file_name # form.import_file_name
                    /\ tmp_storage'[form'.import_file_name] =
                          export_data(form.input_format, p.dataset)
                    /\ tmp_storage'[form.import_file_name] = upload.data
              /\ p.handler = "process_import" =>
                    /\ LastPass.handler = "generic_import_action"
                    /\ SameTable(p.dataset, LastPass.dataset)
                    /\ \A n \in DOMAIN tmp_storage :
                          tmp_storage[n] = upload.data => n # form.import_file_name ]_vars

\* C15 witness: a commit in the rule-based flow, of a sheet whose "Book
\* name" column the rule renamed, that has written to storage.
C15_Witness ==
    /\ admin = "GenericImportMixin"
    /\ pc = "committed"
    /\ LastPass.handler = "process_import"
    /\ Texts(LastPass.dataset.headers) = <<"id", "name", "author_email">>
    /\ Len(LastPass.dataset.rows) > 1
    /\ LastPass.after # LastPass.before

\* C17: when process_import has returned, every blob saved to the temporary
\* store during the flow has been removed, also in the rule-based flow; and
\* the blob of a commit whose import_data raised is still there.
C17_NoBlobLeaks ==
    /\ pc = "committed" => DOMAIN tmp_storage = {}
    /\ ( /\ pc = "stopped"
         /\ passes # <<>>
         /\ LastPass.handler = "process_import"
         /\ LastPass.raised )
       => DOMAIN tmp_storage # {}

(***************************************************************************)
(* A further claim about the field resolver (SpecResolve).                 *)
(***************************************************************************)
\* the k-th smallest element of a set of numbers
Nth(S, k) == CHOOSE x \in S : Cardinality({y \in S : y <= x}) = k

\* C18: after convert_dataset_by_rule and post_convert_dataset the dataset
\* has the rows of the input, in their order, every row as long as the header
\* list; and the retained columns of the input are found, in their relative
\* order, among the columns of the result, each under the header it was
\* renamed to (or kept) and with its original cell in every row.
C18_RetainedDataUnchanged ==
    r_stage = "resolved" =>
        LET kept == {i \in DOMAIN r_input.headers : Retained(i)}
            cols == DOMAIN r_resolved.headers
        IN  /\ Len(r_resolved.rows) = Len(r_input.rows)
            /\ \A r \in DOMAIN r_resolved.rows :
                  Len(r_resolved.rows[r]) = Len(r_resolved.headers)
            /\ \E S \in SUBSET cols :
                  /\ Cardinality(S) = Cardinality(kept)
                  /\ \A i \in kept :
                        LET t == Text(r_input.headers[i])
                            c == Nth(S, Rank(i))
                        IN  /\ r_resolved.headers[c] =
                                  Str(IF HasRuleKey(r_rule, t) THEN RuleTarget(r_rule, t)
                                      ELSE t)
                            /\ \A r \in DOMAIN r_input.rows :
                                  r_resolved.rows[r][c] = r_input.rows[r][i]

\* C18 witness: two dropped columns of one header with a renamed column
\* between them, two rows, and a back-filled column.
C18_Witness ==
    /\ r_stage = "resolved"
    /\ Texts(r_input.headers) = <<"junk", "Book name", "junk">>
    /\ r_rule = (Uni("Book name") :> Uni("name"))
    /\ Len(r_input.rows) = 2
    /\ Len(r_resolved.headers) = 3
    /\ r_resolved.rows[2][3] = CellMark(2, 2)

=============================================================================
